---- MODULE Spec2Model ----
(***************************************************************************)
(* Model of the GMM core of monai/csrc/gmm: the host pipeline GMM_Cuda     *)
(* (gmm_cuda.cuh) and the kernels of gmm_cuda.cu.                          *)
(*                                                                         *)
(* Conventions of the model.                                               *)
(*  - A float is modelled by the real number it stands for, kept exactly   *)
(*    as a fraction of two polynomials in epsilon = 1/EpsInv, together     *)
(*    with the IEEE special values NaN and +/-Inf and with "undef", the    *)
(*    content of a word no stage has written.  Rounding is not modelled.   *)
(*  - The lanes of a warp run in lock step, as the kernels' warp           *)
(*    reductions on volatile shared memory assume; warps of a block        *)
(*    interleave freely between barriers.                                  *)
(*  - A kernel launch is one step of the host program.                     *)
(***************************************************************************)
EXTENDS Integers, Sequences, FiniteSets, TLC

(***************************************************************************)
(* Program constants.                                                      *)
(***************************************************************************)
BLOCK_SIZE == 32
MIXTURES == 2
warp_N == 4
EpsInv == 1000
gmm_pitch == 11
SPLIT_WORDS == 5

(***************************************************************************)
(* Bounds of the model.                                                    *)
(***************************************************************************)
MaxMixtures == 4
MaxGmms == 4
MaxRaces == 1
SplitLanes == 4

(***************************************************************************)
(* Exact arithmetic: polynomials in epsilon with integer coefficients.     *)
(* p[i] is the coefficient of epsilon^(i-1).                               *)
(***************************************************************************)
Max2(a, b) == IF a > b THEN a ELSE b

Gcd(a, b) ==
  LET RECURSIVE G(_, _)
      G(x, y) == IF y = 0 THEN x ELSE G(y, x % y)
      Abs(x) == IF x < 0 THEN -x ELSE x
  IN G(Abs(a), Abs(b))

PGet(p, i) == IF i >= 1 /\ i <= Len(p) THEN p[i] ELSE 0

PAdd(p, q) == [i \in 1..Max2(Len(p), Len(q)) |-> PGet(p, i) + PGet(q, i)]

PNeg(p) == [i \in 1..Len(p) |-> -p[i]]

PScale(c, p) == [i \in 1..Len(p) |-> c * p[i]]

PMul(p, q) ==
  LET RECURSIVE Conv(_, _)
      Conv(k, i) == IF i > Len(p) THEN 0
                    ELSE p[i] * PGet(q, k - i + 1) + Conv(k, i + 1)
  IN [k \in 1..(Len(p) + Len(q) - 1) |-> Conv(k, 1)]

\* Sign (-1, 0, 1) of the value of p at epsilon = 1/EpsInv: carries are
\* propagated from the lowest-order digit to the leading coefficient.
PSign(p) ==
  LET RECURSIVE Carry(_, _, _)
      Carry(i, c, nz) ==
        IF i = 1
        THEN LET top == p[1] + c
             IN IF top > 0 THEN 1 ELSE IF top < 0 THEN -1
                ELSE IF nz THEN 1 ELSE 0
        ELSE LET t == p[i] + c
                 digit == t % EpsInv
             IN Carry(i - 1, (t - digit) \div EpsInv, nz \/ digit # 0)
  IN Carry(Len(p), 0, FALSE)

PIsConst(p) == Len(p) = 1

(***************************************************************************)
(* Floats.                                                                 *)
(***************************************************************************)
Fin(n, d) == [k |-> "fin", n |-> n, d |-> d]
NaN == [k |-> "nan", n |-> <<0>>, d |-> <<1>>]
PInf == [k |-> "pinf", n |-> <<0>>, d |-> <<1>>]
NInf == [k |-> "ninf", n |-> <<0>>, d |-> <<1>>]
Undef == [k |-> "undef", n |-> <<0>>, d |-> <<1>>]
FInt(i) == Fin(<<i>>, <<1>>)
Zero == FInt(0)
One == FInt(1)
epsilon == Fin(<<0, 1>>, <<1>>)

IsFin(a) == a.k = "fin"

\* -1, 0, 1: the sign of a finite float (the denominator is positive).
FSign(a) == PSign(a.n)

\* The result of an operation one of whose operands is not finite, where the
\* code never meets an infinite operand: garbage stays garbage, NaN stays NaN.
Bad(a, b) == IF a.k = "undef" \/ b.k = "undef" THEN Undef ELSE NaN

FNeg(a) == IF IsFin(a) THEN Fin(PNeg(a.n), a.d) ELSE a

FAdd(a, b) ==
  IF ~(IsFin(a) /\ IsFin(b)) THEN Bad(a, b)
  ELSE IF a.d = b.d THEN Fin(PAdd(a.n, b.n), a.d)
  ELSE IF PIsConst(a.d) /\ PIsConst(b.d)
       THEN LET g == Gcd(a.d[1], b.d[1])
                fa == b.d[1] \div g
                fb == a.d[1] \div g
            IN Fin(PAdd(PScale(fa, a.n), PScale(fb, b.n)), <<a.d[1] * fa>>)
       ELSE Fin(PAdd(PMul(a.n, b.d), PMul(b.n, a.d)), PMul(a.d, b.d))

FSub(a, b) == FAdd(a, FNeg(b))

FMul(a, b) ==
  IF ~(IsFin(a) /\ IsFin(b)) THEN Bad(a, b)
  ELSE Fin(PMul(a.n, b.n), PMul(a.d, b.d))

\* a / b for finite a and b with b # 0; integer factors common to the two
\* denominators are cancelled.
FDiv(a, b) ==
  IF ~(IsFin(a) /\ IsFin(b)) THEN Bad(a, b)
  ELSE LET s == PSign(b.n)
           g == IF PIsConst(a.d) /\ PIsConst(b.d) THEN Gcd(a.d[1], b.d[1]) ELSE 1
           ad == IF g = 1 THEN a.d ELSE <<a.d[1] \div g>>
           bd == IF g = 1 THEN b.d ELSE <<b.d[1] \div g>>
       IN IF s = 0
          THEN (IF FSign(a) = 0 THEN NaN ELSE IF FSign(a) > 0 THEN PInf ELSE NInf)
          ELSE IF s > 0 THEN Fin(PMul(a.n, bd), PMul(ad, b.n))
          ELSE Fin(PNeg(PMul(a.n, bd)), PNeg(PMul(ad, b.n)))

\* the same finite float with the integer factor common to all coefficients of
\* the numerator and the denominator cancelled
FNorm(a) ==
  LET RECURSIVE G(_, _, _)
      G(p, i, g) == IF i > Len(p) THEN g ELSE G(p, i + 1, Gcd(g, p[i]))
      g == G(a.d, 1, G(a.n, 1, 0))
  IN IF g <= 1 THEN a
     ELSE Fin([i \in 1..Len(a.n) |-> a.n[i] \div g], [i \in 1..Len(a.d) |-> a.d[i] \div g])

\* Comparisons of floats; every comparison with NaN is false.
FGt(a, b) == IsFin(a) /\ IsFin(b) /\ FSign(FSub(a, b)) > 0
FEq(a, b) == IsFin(a) /\ IsFin(b) /\ FSign(FSub(a, b)) = 0
FGe(a, b) == FGt(a, b) \/ FEq(a, b)

(***************************************************************************)
(* State.                                                                  *)
(***************************************************************************)
VARIABLES
  width, height,            \* image size (GMM_Cuda: desc.sizes)
  mixture_count,            \* arguments of GMM_Cuda
  gaussians_per_mixture,
  image,                    \* uchar4 pixels, row-major: <<x, y, z>> per pixel
  labels,                   \* label_tensor, the caller's initial labels
  alpha,                    \* label map (char per pixel)
  scratch_mem,              \* d_scratch_mem, one cell per 4-byte word
  gmm,                      \* d_gmm, one float per word: word w is gmm[w + 1]
  output,                   \* the output tensor, one cell per float
  final_gmm,                \* final_gmm[0..9] of each block of GMMFinalizeKernel
                            \* as the moment loop leaves it (lines 262-310)
  pc,                       \* position of the host program
  cudaError,                \* the device's error state
  epoch,                    \* number of relabelings done in this call
  races,                    \* racy reads of s_final taken so far
  log,                      \* kernels launched and functions entered, in order
  badReads,                 \* reads of words no earlier stage of the call wrote
  oob,                      \* accesses outside an allocated buffer
  run, first,               \* repeated calls on the same input: call number and
                            \* the result of the first call
  warp, s_final, acc, block_gmm
                            \* one block of GMMReductionKernel, warp by warp:
                            \* position of each warp, the shared array s_final,
                            \* thread 0's running total, the record written

inputVars == <<width, height, mixture_count, gaussians_per_mixture, image, labels>>
blockVars == <<warp, s_final, acc, block_gmm>>
runVars == <<run, first>>

vars == <<inputVars, alpha, scratch_mem, gmm, output, final_gmm, pc, cudaError,
          epoch, races, log, badReads, oob, runVars, blockVars>>

(***************************************************************************)
(* Geometry.                                                               *)
(***************************************************************************)
TILE(SIZE, STRIDE) == ((SIZE - 1) \div STRIDE) + 1

gmms == mixture_count * gaussians_per_mixture
gridX == (width + 31) \div 32
gridY == (height + 31) \div 32
blocks == TILE(width, BLOCK_SIZE) * TILE(height, BLOCK_SIZE)
\* scratch_gmm_size / 4: the number of words of d_scratch_mem
scratch_words == blocks * gmm_pitch * gmms + blocks
gmm_words == gmm_pitch * gmms
output_words == mixture_count * width * height

Pixels == 0..(width * height - 1)
PX(p) == p % width
PY(p) == p \div width
TileOf(p) == (PY(p) \div 32) * gridX + (PX(p) \div 32)
Tiles == 0..(gridX * gridY - 1)
\* threadIdx.y of the thread of GMMReductionKernel that visits pixel p
WarpOf(p) == (PY(p) % 32) % warp_N

(***************************************************************************)
(* Memory cells of d_scratch_mem.  The buffer is used as the presence      *)
(* masks tile_gmms (words 0..blocks-1), the partial records (from word     *)
(* blocks on) and the two split descriptors (words 0..9) at once.          *)
(***************************************************************************)
Cell(t, m, f, i) == [t |-> t, m |-> m, f |-> f, i |-> i, ep |-> epoch]
UndefCell == [t |-> "undef", m |-> {}, f |-> Undef, i |-> 0, ep |-> 0]
MaskCell(m) == Cell("mask", m, Undef, 0)
FloatCell(f) == Cell("f", {}, f, 0)
IntCell(i) == Cell("int", {}, Undef, i)

\* An element of the output tensor (GMMDataTermKernel, line 434): its class, the clusters whose terms are
\* summed in the numerator and those summed in the denominator
OutCell(k, num, den) == [k |-> k, num |-> num, den |-> den]
NoCell == OutCell("undef", <<>>, <<>>)

\* block_gmm of GMMReductionKernel, gmm_partial of GMMFinalizeKernel
PartialWord(gmm_idx, tile, i) ==
  blocks + (gridX * gridY * gmm_idx + tile) * gmm_pitch + i

(***************************************************************************)
(* Inputs of the model: image sizes, images and label maps.                *)
(***************************************************************************)
Geometries == {<<4, 2>>, <<33, 1>>}
ImageKinds == {"tetra", "grey", "flat"}
LabelKinds == {"rows", "cols", "all0"}

\* InitializeImageAndAlphaKernel: the colour of pixel (x, y) as uchar4
Colour(kind, x, y) ==
  CASE kind = "tetra" ->
         <<y + (IF x % 4 = 1 THEN 1 ELSE 0),
           y + (IF x % 4 = 2 THEN 1 ELSE 0),
           y + (IF x % 4 = 3 THEN 1 ELSE 0)>>
    [] kind = "grey" -> <<(x + 2 * y) % 3, (x + 2 * y) % 3, (x + 2 * y) % 3>>
    [] OTHER -> <<1, 1, 1>>

\* the caller's labels, in [-1, mixture_count - 1]; only the first columns of
\* a tile are labelled
Label(kind, mc, x, y) ==
  IF x % BLOCK_SIZE >= 4 THEN -1
  ELSE CASE kind = "rows" -> y % mc
         [] kind = "cols" -> IF x % 4 = 3 THEN -1 ELSE x % mc
         [] OTHER -> 0

(***************************************************************************)
(* Host program positions.                                                 *)
(***************************************************************************)
At(fn, op, k, i) == [fn |-> fn, op |-> op, k |-> k, i |-> i]
Ok == cudaError = "cudaSuccess"

RECURSIVE SumInt(_, _)
SumInt(S, f) ==
  IF S = {} THEN 0
  ELSE LET e == CHOOSE x \in S : TRUE IN f[e] + SumInt(S \ {e}, f)

\* <<F(1), ..., F(n)>>, every element computed once
Tabulate(n, F(_)) ==
  LET RECURSIVE T(_)
      T(i) == IF i = 0 THEN <<>> ELSE Append(T(i - 1), F(i))
  IN T(n)

\* every subset of S with at most n elements
RECURSIVE SubsetsUpTo(_, _)
SubsetsUpTo(S, n) ==
  IF n <= 0 THEN {{}}
  ELSE LET prev == SubsetsUpTo(S, n - 1)
       IN prev \cup {s \cup {e} : s \in prev, e \in S}

(***************************************************************************)
(* GMM_Cuda, lines 34-55: the buffers are allocated and the labels copied. *)
(***************************************************************************)
Alloc ==
  /\ pc.op = "alloc" /\ Ok
  /\ alpha' = [p \in Pixels |-> labels[p]]
  /\ scratch_mem' = [w \in 0..(scratch_words - 1) |-> UndefCell]
  /\ gmm' = [w \in 1..gmm_words |-> Undef]
  /\ output' = [w \in 0..(output_words - 1) |-> NoCell]
  /\ pc' = At("GMM_Cuda", "GMMInitialize", 0, 0)
  /\ log' = <<>>
  /\ epoch' = 0
  /\ final_gmm' = <<>>
  /\ UNCHANGED <<inputVars, cudaError, races, badReads, oob, runVars, blockVars>>

(***************************************************************************)
(* GMMReductionKernel.                                                     *)
(***************************************************************************)
get_component(pixel, i) ==
  CASE i = 0 -> 1
    [] i = 1 -> pixel[1]
    [] i = 2 -> pixel[2]
    [] i = 3 -> pixel[3]
    [] i = 4 -> pixel[1] * pixel[1]
    [] i = 5 -> pixel[1] * pixel[2]
    [] i = 6 -> pixel[1] * pixel[3]
    [] i = 7 -> pixel[2] * pixel[2]
    [] i = 8 -> pixel[2] * pixel[3]
    [] i = 9 -> pixel[3] * pixel[3]
    [] OTHER -> 0

\* lines 137-213: what warp w of the block of `tile` leaves in s_final[w]
\* for statistic i: the sum over the pixels its threads listed
WarpTotal(gmm_idx, tile, w, i) ==
  LET mine == {p \in Pixels : /\ TileOf(p) = tile /\ WarpOf(p) = w
                              /\ alpha[p] # -1 /\ alpha[p] = gmm_idx}
  IN SumInt(mine, [p \in mine |-> get_component(image[p], i)])

\* s_final of every block for every statistic: element <<tile + 1, w + 1, i + 1>>
\* is WarpTotal(gmm_idx, tile, w, i)
WarpTotals(gmm_idx) ==
  Tabulate(gridX * gridY, LAMBDA t :
    Tabulate(warp_N, LAMBDA w :
      Tabulate(10, LAMBDA i : WarpTotal(gmm_idx, t - 1, w - 1, i - 1))))

\* lines 112-120, 150-155, 171-174: the presence mask of a tile
TileFlags(tile) ==
  {alpha[p] : p \in {q \in Pixels : TileOf(q) = tile /\ alpha[q] # -1}}

\* lines 215-226: thread 0 adds s_final[1..warp_N-1] to its own total after the
\* barrier of line 215.  No barrier separates these reads from the next
\* iteration's write of s_final[j] by warp j, so a read may return warp j's
\* total for statistic i+1: `late` holds the <<tile, j, i>> where it does.
\* wt is WarpTotals(gmm_idx).
BlockTotal(wt, tile, i, late) ==
  LET R == [j \in 1..(warp_N - 1) |->
              IF <<tile, j, i>> \in late
              THEN wt[tile + 1][j + 1][i + 2]
              ELSE wt[tile + 1][j + 1][i + 1]]
  IN wt[tile + 1][1][i + 1] + SumInt(1..(warp_N - 1), R)

\* the reads of s_final whose outcome depends on the interleaving
RacyReads(wt, tiles) ==
  {r \in tiles \X (1..(warp_N - 1)) \X (0..8) :
     wt[r[1] + 1][r[2] + 1][r[3] + 1] # wt[r[1] + 1][r[2] + 1][r[3] + 2]}

\* lines 123-135: the tiles whose mask word is not a mask written since the
\* last relabeling
StaleMask(tile) ==
  scratch_mem[tile].t # "mask" \/ scratch_mem[tile].ep # epoch

\* The position after a reduction pass (the loops of GMMInitialize, lines
\* 684-689, and of GMMUpdate, lines 704-709).
AfterReduction ==
  IF pc.i + 1 < pc.k THEN At(pc.fn, "reduce", pc.k, pc.i + 1)
  ELSE At(pc.fn, "finalize", pc.k, 0)

Reduction ==
  /\ pc.op = "reduce" /\ Ok
  /\ LET gmm_idx == pc.i
         create_gmm_flags == (pc.i = 0)
         garbled == IF create_gmm_flags THEN {}
                    ELSE {t \in Tiles : scratch_mem[t].t # "mask"}
     IN \E guess \in SUBSET garbled :
          LET skipped == IF create_gmm_flags THEN {}
                         ELSE {t \in Tiles \ garbled : gmm_idx \notin scratch_mem[t].m}
                                \cup guess
              active == Tiles \ skipped
          IN \E wt \in {WarpTotals(gmm_idx)} :
             \E late \in SubsetsUpTo(RacyReads(wt, active), MaxRaces - races) :
               /\ scratch_mem' =
                    [w \in DOMAIN scratch_mem |->
                       IF w < blocks
                       THEN (IF create_gmm_flags THEN MaskCell(TileFlags(w) \cap (0..31))
                             ELSE scratch_mem[w])
                       ELSE LET r == (w - blocks) \div gmm_pitch
                                i == (w - blocks) % gmm_pitch
                                c == r \div (gridX * gridY)
                                t == r % (gridX * gridY)
                            IN IF c = gmm_idx /\ i < 10
                               THEN (IF t \in skipped THEN FloatCell(Zero)
                                     ELSE FloatCell(FInt(BlockTotal(wt, t, i, late))))
                               ELSE scratch_mem[w]]
               /\ races' = races + Cardinality(late)
               /\ badReads' = badReads \cup
                    (IF create_gmm_flags THEN {}
                     ELSE {<<"GMMReductionKernel", "mask">> : t \in {u \in Tiles : StaleMask(u)}})
  /\ log' = Append(log, <<"GMMReductionKernel", pc.fn, pc.k, pc.i>>)
  /\ pc' = AfterReduction
  /\ UNCHANGED <<inputVars, alpha, gmm, output, final_gmm, cudaError, epoch, oob,
                 runVars, blockVars>>

(***************************************************************************)
(* GMMFinalizeKernel.                                                      *)
(***************************************************************************)
RECURSIVE SumF(_, _)
SumF(S, f) ==
  IF S = {} THEN Zero
  ELSE LET e == CHOOSE x \in S : TRUE IN FAdd(SumF(S \ {e}, f), f[e])

get_constant(g, i) ==
  CASE i = 4 -> FAdd(FMul(g[1], g[1]), epsilon)
    [] i = 5 -> FMul(g[1], g[2])
    [] i = 6 -> FMul(g[1], g[3])
    [] i = 7 -> FAdd(FMul(g[2], g[2]), epsilon)
    [] i = 8 -> FMul(g[2], g[3])
    [] i = 9 -> FAdd(FMul(g[3], g[3]), epsilon)
    [] OTHER -> Zero

\* x << (4 * n)
Shl4(x, n) == x * (16 ^ n)
\* (v & (15 << (t * 4))) >> (t * 4)
Nibble(v, t) == (v \div (16 ^ t)) % 16

\* det_indices with the first index of product 0 off by one
det_indices_off_by_one ==
  <<Shl4(9, 4) + Shl4(4, 3) + Shl4(6, 2) + Shl4(5, 1) + Shl4(5, 0),
    Shl4(5, 4) + Shl4(8, 3) + Shl4(6, 2) + Shl4(6, 1) + Shl4(7, 0),
    Shl4(5, 4) + Shl4(8, 3) + Shl4(7, 2) + Shl4(8, 1) + Shl4(9, 0)>>

det_indices ==
  <<Shl4(9, 4) + Shl4(4, 3) + Shl4(6, 2) + Shl4(5, 1) + Shl4(4, 0),
    Shl4(5, 4) + Shl4(8, 3) + Shl4(6, 2) + Shl4(6, 1) + Shl4(7, 0),
    Shl4(5, 4) + Shl4(8, 3) + Shl4(7, 2) + Shl4(8, 1) + Shl4(9, 0)>>

inv_indices ==
  <<Shl4(4, 5) + Shl4(5, 4) + Shl4(4, 3) + Shl4(5, 2) + Shl4(6, 1) + Shl4(7, 0),
    Shl4(7, 5) + Shl4(6, 4) + Shl4(9, 3) + Shl4(8, 2) + Shl4(8, 1) + Shl4(9, 0),
    Shl4(5, 5) + Shl4(4, 4) + Shl4(6, 3) + Shl4(6, 2) + Shl4(5, 1) + Shl4(8, 0),
    Shl4(5, 5) + Shl4(8, 4) + Shl4(6, 3) + Shl4(7, 2) + Shl4(9, 1) + Shl4(8, 0)>>

\* the float a stage reads from a word of d_scratch_mem
ScratchFloat(w) == IF scratch_mem[w].t = "f" THEN scratch_mem[w].f ELSE Undef

\* lines 262-288: what warp w of block gmm_idx leaves in s_final[w] for
\* statistic i: the sum of the partial records of the tiles its threads read
FinalWarpTotal(gmm_idx, w, i) ==
  LET mine == {j \in Tiles : (j % (warp_N * 32)) \div 32 = w}
  IN SumF(mine, [j \in mine |-> ScratchFloat(PartialWord(gmm_idx, j, i))])

\* lines 290-298, with the same unordered reads of s_final as the reduction
FinalTotal(gmm_idx, i, late) ==
  LET R == [j \in 1..(warp_N - 1) |->
              IF <<gmm_idx, j, i>> \in late
              THEN FinalWarpTotal(gmm_idx, j, i + 1)
              ELSE FinalWarpTotal(gmm_idx, j, i)]
  IN FAdd(FinalWarpTotal(gmm_idx, 0, i), SumF(1..(warp_N - 1), R))

FinalRacyReads(N) ==
  {r \in (0..(N - 1)) \X (1..(warp_N - 1)) \X (0..8) :
     FinalWarpTotal(r[1], r[2], r[3]) # FinalWarpTotal(r[1], r[2], r[3] + 1)}

\* Tuples hold final_gmm and the cluster records: slot i is element i + 1.
Slot(f, i) == f[i + 1]

\* lines 260-310: final_gmm[0..9] from the ten sums
Moments(sum) ==
  LET norm_factor == IF FGt(Slot(sum, 0), Zero) THEN FDiv(One, Slot(sum, 0)) ELSE One
      f0 == FSub(FMul(One, Slot(sum, 0)), Zero)
      m1 == FSub(FMul(norm_factor, Slot(sum, 1)), Zero)
      m2 == FSub(FMul(norm_factor, Slot(sum, 2)), Zero)
      m3 == FSub(FMul(norm_factor, Slot(sum, 3)), Zero)
      g == <<m1, m2, m3>>
      C(i) == FSub(FMul(norm_factor, Slot(sum, i)), get_constant(g, i))
  IN <<f0, m1, m2, m3, C(4), C(5), C(6), C(7), C(8), C(9)>>

\* lines 316-327: det(Sigma) by the index table; f is final_gmm[0..9]
Determinant(f) ==
  LET P(t) == FMul(FMul(Slot(f, Nibble(det_indices[1], t)),
                        Slot(f, Nibble(det_indices[2], t))),
                   Slot(f, Nibble(det_indices[3], t)))
  IN FSub(FSub(FSub(FAdd(P(0), FMul(FInt(2), P(1))), P(2)), P(3)), P(4))

\* lines 330-347: entry t of inv(Sigma), stored in final_gmm[4 + t]
InverseEntry(f, det, t) ==
  LET temp == FSub(FMul(Slot(f, Nibble(inv_indices[1], t)),
                        Slot(f, Nibble(inv_indices[2], t))),
                   FMul(Slot(f, Nibble(inv_indices[3], t)),
                        Slot(f, Nibble(inv_indices[4], t))))
  IN IF FGt(det, Zero) THEN FDiv(temp, det) ELSE Zero

\* lines 349-352: the eleven floats written to the cluster record, from
\* final_gmm[0..9] and the determinant
RecordOf(f, det, invertSigma) ==
  IF invertSigma
  THEN <<f[1], f[2], f[3], f[4],
         InverseEntry(f, det, 0), InverseEntry(f, det, 1), InverseEntry(f, det, 2),
         InverseEntry(f, det, 3), InverseEntry(f, det, 4), InverseEntry(f, det, 5),
         det>>
  ELSE f \o <<det>>

\* lines 312-353: the record a block writes from its final_gmm[0..9]
\* (the set comprehension binds the determinant to its value, computed once)
FinalRecord(f, invertSigma) ==
  CHOOSE r \in {RecordOf(f, det, invertSigma) : det \in {Determinant(f)}} : TRUE

\* the sums of block gmm_idx, lines 262-298
FinalSums(gmm_idx, late) ==
  <<FinalTotal(gmm_idx, 0, late), FinalTotal(gmm_idx, 1, late),
    FinalTotal(gmm_idx, 2, late), FinalTotal(gmm_idx, 3, late),
    FinalTotal(gmm_idx, 4, late), FinalTotal(gmm_idx, 5, late),
    FinalTotal(gmm_idx, 6, late), FinalTotal(gmm_idx, 7, late),
    FinalTotal(gmm_idx, 8, late), FinalTotal(gmm_idx, 9, late)>>

\* final_gmm[0..9] of the blocks c..N-1, one tuple per block
RECURSIVE FinalMoments(_, _, _)
FinalMoments(c, N, late) ==
  IF c >= N THEN <<>>
  ELSE <<CHOOSE m \in {Moments(sum) : sum \in {FinalSums(c, late)}} : TRUE>>
         \o FinalMoments(c + 1, N, late)

\* line 351: the records of the blocks that lie inside d_gmm, one after the other
RECURSIVE FinalRecords(_, _, _)
FinalRecords(moms, c, invertSigma) ==
  IF c > Len(moms) \/ c > gmms THEN <<>>
  ELSE FinalRecord(moms[c], invertSigma) \o FinalRecords(moms, c + 1, invertSigma)

StalePartial(gmm_idx) ==
  \E j \in Tiles, i \in 0..9 :
     LET c == scratch_mem[PartialWord(gmm_idx, j, i)]
     IN c.t # "f" \/ c.ep # epoch

\* The launch <<<N, 32 * warp_N>>> of GMMFinalizeKernel: N = pc.k blocks.
Finalize ==
  /\ pc.op = "finalize" /\ Ok
  /\ LET N == pc.k
         invertSigma == (pc.fn = "GMMUpdate")
     IN \E late \in SubsetsUpTo(FinalRacyReads(N), MaxRaces - races) :
          /\ \E moms \in {FinalMoments(0, N, late)} :
               /\ final_gmm' = moms
               /\ \E recs \in {FinalRecords(moms, 1, invertSigma)} :
                    gmm' = recs \o SubSeq(gmm, Len(recs) + 1, Len(gmm))
          /\ races' = races + Cardinality(late)
          /\ badReads' = badReads \cup
               {<<"GMMFinalizeKernel", "partial">> : c \in {x \in 0..(N - 1) : StalePartial(x)}}
          /\ oob' = oob \cup
               {<<"GMMFinalizeKernel", "gmm">> : c \in {x \in 0..(N - 1) : x >= gmms}}
  /\ log' = Append(log, <<"GMMFinalizeKernel", pc.fn, pc.k, 0>>)
  /\ pc' = IF pc.fn = "GMMInitialize" THEN At(pc.fn, "findsplit", pc.k, 0)
           ELSE At(pc.fn, "commonterm", pc.k, 0)
  /\ UNCHANGED <<inputVars, alpha, scratch_mem, output, cudaError, epoch,
                 runVars, blockVars>>

(***************************************************************************)
(* GMMInitialize: the host loop of lines 680-694.                          *)
(***************************************************************************)
\* line 680: the loop test for the value k of the loop variable
LoopOrLeave(k) ==
  IF k < gmms THEN At("GMMInitialize", "reduce", k, 0)
  ELSE At("GMM_Cuda", "GMMUpdate", k, 0)

EnterInitialize ==
  /\ pc.op = "GMMInitialize"
  /\ pc' = LoopOrLeave(2)
  /\ log' = Append(log, <<"GMMInitialize", "GMM_Cuda", 0, 0>>)
  /\ UNCHANGED <<inputVars, alpha, scratch_mem, gmm, output, final_gmm, cudaError,
                 epoch, races, badReads, oob, runVars, blockVars>>

(***************************************************************************)
(* GMMFindSplit.                                                           *)
(***************************************************************************)
\* A float v / sqrtf(len2) with len2 > 0: a component of a normalised vector
\* or a scalar product with one.
Scaled(v, len2) == [k |-> "scaled", n |-> v.n, d |-> v.d, s |-> len2]

\* max(a, b) on floats (lines 571-583): a NaN operand is ignored
FMax(a, b) ==
  IF a.k = "undef" \/ b.k = "undef" THEN Undef
  ELSE IF a.k = "nan" THEN b
  ELSE IF b.k = "nan" THEN a
  ELSE IF FGt(b, a) THEN b ELSE a

\* the float at word w of d_gmm; outside the buffer the content is unknown
GmmWord(w) == IF w >= 0 /\ w < gmm_words THEN gmm[w + 1] ELSE Undef

\* &gmm[gmm_idx * gmm_pitch + 4]: M[0..5] as a tuple, M[i] is element i + 1
Sigma(gmm_idx) ==
  <<GmmWord(gmm_idx * gmm_pitch + 4), GmmWord(gmm_idx * gmm_pitch + 5),
    GmmWord(gmm_idx * gmm_pitch + 6), GmmWord(gmm_idx * gmm_pitch + 7),
    GmmWord(gmm_idx * gmm_pitch + 8), GmmWord(gmm_idx * gmm_pitch + 9)>>

Abs(x) == IF x < 0 THEN -x ELSE x

\* det(W - mu * I) for the integer symmetric matrix W = <<w00, w01, w02, w11,
\* w12, w22>>: the characteristic polynomial whose roots lines 469-511 compute
CharPoly(W, mu) ==
  LET a == W[1] - mu
      d == W[4] - mu
      f == W[6] - mu
  IN a * d * f + 2 * W[2] * W[3] * W[5] - a * W[5] * W[5] - d * W[3] * W[3]
       - f * W[2] * W[2]

\* a bound on the absolute value of the eigenvalues of W (largest row sum)
EigBound(W) ==
  Max2(Max2(Abs(W[1]) + Abs(W[2]) + Abs(W[3]), Abs(W[2]) + Abs(W[4]) + Abs(W[5])),
       Abs(W[3]) + Abs(W[5]) + Abs(W[6]))

\* the largest root of CharPoly(W, .), rounded down to an integer
EigTop(W) ==
  LET B == EigBound(W)
      C == {mu \in (-B)..B : CharPoly(W, mu) >= 0 /\ CharPoly(W, mu + 1) < 0}
  IN CHOOSE m \in C : \A x \in C : x <= m

\* the smallest root of CharPoly(W, .), rounded down to an integer
EigBottom(W) ==
  LET B == EigBound(W)
      C == {mu \in (-B)..B : CharPoly(W, mu - 1) > 0 /\ CharPoly(W, mu) <= 0}
      m == CHOOSE x \in C : \A y \in C : x <= y
  IN IF CharPoly(W, m) = 0 THEN m ELSE m - 1

\* lines 455-514.  Line 459 overwrites the norm of line 458, so the norm is
\* the larger of M[0] and M[5].  For a norm > 0 the three roots of lines
\* 497-506 are the eigenvalues of M / norm and the result is the largest
\* eigenvalue of M; for a norm < 0 it is the smallest; for a norm of 0 every
\* a_ij is NaN or infinite and the result is NaN.  The matrices the moment
\* step stores are (W - e * I) / D for an integer matrix W and an integer D:
\* their eigenvalues are those of W, shifted by e and divided by D.  An
\* irrational eigenvalue of W is rounded down to an integer.
largest_eigenvalue(M) ==
  IF \E i \in 1..6 : M[i].k = "undef" THEN Undef
  ELSE IF \E i \in 1..6 : ~IsFin(M[i]) THEN NaN
  ELSE LET norm == IF FGt(M[1], M[6]) THEN M[1] ELSE M[6]
           W == <<PGet(M[1].n, 1), PGet(M[2].n, 1), PGet(M[3].n, 1),
                  PGet(M[4].n, 1), PGet(M[5].n, 1), PGet(M[6].n, 1)>>
           shift == PGet(M[1].n, 2)
       IN IF FSign(norm) = 0 THEN NaN
          ELSE IF FSign(norm) > 0 THEN Fin(<<EigTop(W), shift>>, M[1].d)
          ELSE Fin(<<EigBottom(W), shift>>, M[1].d)

\* lines 516-520
cross_prod(a, b) ==
  <<FSub(FMul(a[2], b[3]), FMul(a[3], b[2])),
    FSub(FMul(a[3], b[1]), FMul(a[1], b[3])),
    FSub(FMul(a[1], b[2]), FMul(a[2], b[1]))>>

\* lines 438-444: v / sqrtf(v.v); the zero vector gives 0 * (1/0) = NaN
normalize(v) ==
  IF \E i \in 1..3 : v[i].k = "undef" THEN <<Undef, Undef, Undef>>
  ELSE IF \E i \in 1..3 : ~IsFin(v[i]) THEN <<NaN, NaN, NaN>>
  ELSE LET len2 == FAdd(FAdd(FMul(v[1], v[1]), FMul(v[2], v[2])), FMul(v[3], v[3]))
       IN IF FSign(len2) = 0 THEN <<NaN, NaN, NaN>>
          ELSE <<Scaled(v[1], len2), Scaled(v[2], len2), Scaled(v[3], len2)>>

\* lines 522-530: the second row starts with M[2], not M[1]
compute_eigenvector(M, eigenvalue) ==
  LET r0 == <<FSub(M[1], eigenvalue), M[2], M[3]>>
      r1 == <<M[3], FSub(M[4], eigenvalue), M[5]>>
  IN normalize(cross_prod(r0, r1))

\* lines 539-543, for a vector a of finite floats and a normalised vector b
scalar_prod(a, b) ==
  IF \E i \in 1..3 : a[i].k = "undef" \/ b[i].k = "undef" THEN Undef
  ELSE IF \E i \in 1..3 : ~IsFin(a[i]) \/ b[i].k # "scaled" THEN NaN
  ELSE LET Comp(i) == Fin(b[i].n, b[i].d)
       IN Scaled(FAdd(FAdd(FMul(a[1], Comp(1)), FMul(a[2], Comp(2))),
                      FMul(a[3], Comp(3))), b[1].s)

\* value > threshold for two scalar products with the same normalised vector;
\* "garbage" when an operand is a word nobody initialised
SplitCompare(value, threshold) ==
  IF value.k = "undef" \/ threshold.k = "undef" THEN "garbage"
  ELSE IF value.k = "scaled" /\ threshold.k = "scaled" /\ value.s = threshold.s
       THEN (IF FGt(Fin(value.n, value.d), Fin(threshold.n, threshold.d))
             THEN "true" ELSE "false")
       ELSE "false"

\* lines 559-565: the eigenvalue of lane (x, y); a lane with x >= gmmK keeps 0
LaneEigenvalue(gmmK, x, y) ==
  IF x < gmmK THEN largest_eigenvalue(Sigma(2 * x + y)) ELSE Zero

\* the eigenvalues of all lanes: element <<y + 1, x + 1>> is that of lane (x, y)
LaneEigenvalues(gmmK) ==
  Tabulate(2, LAMBDA y : Tabulate(32, LAMBDA x : LaneEigenvalue(gmmK, x - 1, y - 1)))

\* lines 567-583: the maximum over the 32 lanes of row y
RowMax(ev, y) ==
  LET RECURSIVE Fold(_)
      Fold(x) == IF x = 0 THEN ev[y + 1][1] ELSE FMax(Fold(x - 1), ev[y + 1][x + 1])
  IN Fold(31)

\* line 585: the lanes of row y that write gmmSplit[y]; the model follows
\* the writes of lanes 0..SplitLanes-1
Writers(ev, y) ==
  CHOOSE W \in {{x \in 0..(SplitLanes - 1) : FEq(top, ev[y + 1][x + 1])} :
                  top \in {RowMax(ev, y)}} : TRUE

\* lines 587-591: the descriptor lane (x, y) writes; the eigenvector of a
\* lane with x >= gmmK was never assigned
SplitOf(gmmK, ev, x, y) ==
  LET gmm_idx == 2 * x + y
      eigenvector ==
        IF x < gmmK
        THEN compute_eigenvector(Sigma(gmm_idx), ev[y + 1][x + 1])
        ELSE <<Undef, Undef, Undef>>
      mean == <<GmmWord(gmm_idx * gmm_pitch + 1), GmmWord(gmm_idx * gmm_pitch + 2),
                GmmWord(gmm_idx * gmm_pitch + 3)>>
  IN CHOOSE d \in {<<IntCell(x), FloatCell(scalar_prod(mean, e)),
                     FloatCell(e[1]), FloatCell(e[2]), FloatCell(e[3])>> :
                   e \in {eigenvector}} : TRUE

FindSplit ==
  /\ pc.op = "findsplit" /\ Ok
  /\ LET gmmK == pc.k \div 2
     IN \E ev \in {LaneEigenvalues(gmmK)} :
        \E W0 \in {Writers(ev, 0)}, W1 \in {Writers(ev, 1)} :
          \E x0 \in (IF W0 = {} THEN {-1} ELSE W0), x1 \in (IF W1 = {} THEN {-1} ELSE W1) :
            \E s0 \in {IF x0 < 0 THEN <<>> ELSE SplitOf(gmmK, ev, x0, 0)},
               s1 \in {IF x1 < 0 THEN <<>> ELSE SplitOf(gmmK, ev, x1, 1)} :
              /\ scratch_mem' =
                   [w \in DOMAIN scratch_mem |->
                      IF w < SPLIT_WORDS /\ x0 >= 0 THEN s0[w + 1]
                      ELSE IF w >= SPLIT_WORDS /\ w < 2 * SPLIT_WORDS /\ x1 >= 0
                      THEN s1[w - SPLIT_WORDS + 1]
                      ELSE scratch_mem[w]]
              /\ badReads' = badReads \cup
                   {<<"GMMFindSplit", "eigenvector">> : x \in {u \in {x0, x1} : u >= gmmK}}
                   \cup {<<"GMMFindSplit", "gmm">> :
                           r \in {u \in {2 * x0, 2 * x1 + 1} :
                                    u >= pc.k /\ (u + 1) * gmm_pitch <= gmm_words}}
              /\ oob' = oob \cup
                   {<<"GMMFindSplit", "gmm">> :
                      r \in {u \in {2 * x0, 2 * x1 + 1} :
                               u >= 0 /\ (u + 1) * gmm_pitch > gmm_words}}
  /\ log' = Append(log, <<"GMMFindSplit", pc.fn, pc.k, 0>>)
  /\ pc' = At(pc.fn, "dosplit", pc.k, 0)
  /\ UNCHANGED <<inputVars, alpha, gmm, output, final_gmm, cudaError, epoch, races,
                 runVars, blockVars>>

(***************************************************************************)
(* GMMDoSplit.                                                             *)
(***************************************************************************)
\* s_gmmSplit[select], copied from words 0..9 of d_scratch_mem (lines 601-607)
\* SplitIdx reading the other group's descriptor
SplitIdx_other_group(select) == scratch_mem[(1 - select) * SPLIT_WORDS].i

SplitIdx(select) == scratch_mem[select * SPLIT_WORDS].i
SplitThreshold(select) == scratch_mem[select * SPLIT_WORDS + 1].f
SplitVector(select) ==
  <<scratch_mem[select * SPLIT_WORDS + 2].f, scratch_mem[select * SPLIT_WORDS + 3].f,
    scratch_mem[select * SPLIT_WORDS + 4].f>>

PixelFloat(pixel) == <<FInt(pixel[1]), FInt(pixel[2]), FInt(pixel[3])>>

\* lines 620-634: the outcome of the test of line 634 for pixel p, "skip" for
\* a pixel that does not reach it
SplitTest(p) ==
  LET my_alpha == alpha[p]
      select == my_alpha % 2
      gmm_idx == my_alpha \div 2
  IN IF my_alpha = -1 \/ gmm_idx # SplitIdx(select) THEN "skip"
     ELSE SplitCompare(scalar_prod(PixelFloat(image[p]), SplitVector(select)),
                       SplitThreshold(select))

DoSplit ==
  /\ pc.op = "dosplit" /\ Ok
  /\ LET k == (pc.k \div 2) * 2
     IN \E test \in {[p \in Pixels |-> SplitTest(p)]} :
          \E guess \in SUBSET {p \in Pixels : test[p] = "garbage"} :
            alpha' = [p \in Pixels |->
                        IF test[p] = "true" \/ p \in guess THEN k + (alpha[p] % 2)
                        ELSE alpha[p]]
  /\ epoch' = epoch + 1
  /\ log' = Append(log, <<"GMMDoSplit", pc.fn, pc.k, 0>>)
  /\ pc' = LoopOrLeave(pc.k + 2)
  /\ UNCHANGED <<inputVars, scratch_mem, gmm, output, final_gmm, cudaError, races,
                 badReads, oob, runVars, blockVars>>

(***************************************************************************)
(* GMMUpdate.                                                              *)
(***************************************************************************)
EnterUpdate ==
  /\ pc.op = "GMMUpdate"
  /\ pc' = At("GMMUpdate", "reduce", gmms, 0)
  /\ log' = Append(log, <<"GMMUpdate", "GMM_Cuda", pc.k, 0>>)
  /\ UNCHANGED <<inputVars, alpha, scratch_mem, gmm, output, final_gmm, cudaError,
                 epoch, races, badReads, oob, runVars, blockVars>>

\* line 386: gmm_n / (sqrtf(det) * sum).  A positive result is kept as the
\* three numbers it is made of.
CommonTermValue(gmm_n, det, sum) ==
  IF gmm_n.k = "undef" \/ det.k = "undef" \/ sum.k = "undef" THEN Undef
  ELSE IF ~(IsFin(gmm_n) /\ IsFin(det) /\ IsFin(sum)) THEN NaN
  ELSE IF FSign(det) < 0 THEN NaN
  ELSE IF FSign(det) = 0 \/ FSign(sum) = 0
       THEN (IF FSign(gmm_n) = 0 THEN NaN
             ELSE IF FSign(gmm_n) > 0 THEN PInf ELSE NInf)
  ELSE IF FSign(gmm_n) = 0 THEN Zero
  ELSE IF FSign(gmm_n) * FSign(sum) > 0
       THEN [k |-> "ct", cnt |-> gmm_n, det |-> det, sum |-> sum]
       ELSE [k |-> "negct", cnt |-> gmm_n, det |-> det, sum |-> sum]

\* RowCount adding the counts of one pair of clusters only
RowCount_one_pair(gmmK, y) ==
  IF gmmK >= 1 THEN FAdd(GmmWord(0), GmmWord(gmm_pitch)) ELSE Zero

\* lines 362-381: the sum of the counts of the clusters 2 * x + y, x < gmmK
RowCount(gmmK, y) ==
  LET RECURSIVE Tot(_)
      Tot(x) == IF x >= gmmK THEN Zero
                ELSE FAdd(GmmWord((2 * x + y) * gmm_pitch), Tot(x + 1))
  IN Tot(0)

CommonTerm ==
  /\ pc.op = "commonterm" /\ Ok
  /\ LET gmmK == pc.k \div 2
     IN \E s \in {<<RowCount(gmmK, 0), RowCount(gmmK, 1)>>} :
          gmm' = [w \in 1..Len(gmm) |->
                    LET gmm_idx == (w - 1) \div gmm_pitch
                    IN IF (w - 1) % gmm_pitch = 10 /\ gmm_idx \div 2 < gmmK
                       THEN CommonTermValue(gmm[w - 10], gmm[w], s[(gmm_idx % 2) + 1])
                       ELSE gmm[w]]
  /\ log' = Append(log, <<"GMMcommonTerm", pc.fn, pc.k, 0>>)
  /\ pc' = At("GMM_Cuda", "GMMDataTerm", pc.k, 0)
  /\ UNCHANGED <<inputVars, alpha, scratch_mem, output, final_gmm, cudaError, epoch,
                 races, badReads, oob, runVars, blockVars>>

(***************************************************************************)
(* GMMDataTerm.  A response is a sum of terms gmm[10] * expf(arg); the     *)
(* model keeps of it what decides the output: whether it is garbage, NaN,  *)
(* infinite, zero, positive or negative.                                   *)
(***************************************************************************)
\* expf(x) is +Inf in float for x >= ExpMax and 0 for x <= ExpMin
ExpMax == 89
ExpMin == -104

\* +, * and / of floats on the classes
\* "undef", "nan", "pinf", "ninf", "zero", "pos", "neg", "fin" (finite, sign unknown)
AddClass(a, b) ==
  IF a = "undef" \/ b = "undef" THEN "undef"
  ELSE IF a = "nan" \/ b = "nan" THEN "nan"
  ELSE IF {a, b} = {"pinf", "ninf"} THEN "nan"
  ELSE IF a = "pinf" \/ b = "pinf" THEN "pinf"
  ELSE IF a = "ninf" \/ b = "ninf" THEN "ninf"
  ELSE IF a = "zero" THEN b
  ELSE IF b = "zero" THEN a
  ELSE IF a = b THEN a
  ELSE "fin"

NegClass(a) ==
  CASE a = "pinf" -> "ninf" [] a = "ninf" -> "pinf"
    [] a = "pos" -> "neg" [] a = "neg" -> "pos" [] OTHER -> a

\* a * b for b >= 0
MulClass(a, b) ==
  IF a = "undef" \/ b = "undef" THEN "undef"
  ELSE IF a = "nan" \/ b = "nan" THEN "nan"
  ELSE IF a = "zero" THEN (IF b = "pinf" THEN "nan" ELSE "zero")
  ELSE IF b = "zero" THEN (IF a \in {"pinf", "ninf"} THEN "nan" ELSE "zero")
  ELSE IF b = "pinf" THEN (IF a \in {"pos", "pinf"} THEN "pinf"
                           ELSE IF a \in {"neg", "ninf"} THEN "ninf" ELSE "fin")
  ELSE a

DivClass(a, b) ==
  IF a = "undef" \/ b = "undef" THEN "undef"
  ELSE IF a = "nan" \/ b = "nan" THEN "nan"
  ELSE IF b \in {"pinf", "ninf"}
       THEN (IF a \in {"pinf", "ninf"} THEN "nan" ELSE "zero")
  ELSE IF b = "zero"
       THEN (IF a = "zero" THEN "nan"
             ELSE IF a \in {"pos", "pinf"} THEN "pinf"
             ELSE IF a \in {"neg", "ninf"} THEN "ninf" ELSE "fin")
  ELSE IF b = "pos" THEN a
  ELSE IF b = "neg" THEN NegClass(a)
  ELSE (IF a = "zero" THEN "zero" ELSE "fin")

\* the class of the float in gmm[10]
ClassOf(c) ==
  CASE c.k = "undef" -> "undef"
    [] c.k = "nan" -> "nan"
    [] c.k = "pinf" -> "pinf"
    [] c.k = "ninf" -> "ninf"
    [] c.k = "ct" -> "pos"
    [] c.k = "negct" -> "neg"
    [] c.k = "fin" -> (IF FSign(c) > 0 THEN "pos" ELSE IF FSign(c) < 0 THEN "neg" ELSE "zero")
    [] OTHER -> "fin"

\* the class of expf(x)
ExpClass(x) ==
  IF x.k = "undef" THEN "undef"
  ELSE IF ~IsFin(x) THEN "nan"
  ELSE LET y == FNorm(x)
       IN IF FGe(y, FInt(ExpMax)) THEN "pinf"
          ELSE IF FGe(FInt(ExpMin), y) THEN "zero"
          ELSE "pos"

\* lines 394-404: the argument of expf for the record of cluster gmm_idx
GMMTermArg(pixel, gmm_idx) ==
  LET R(i) == GmmWord(gmm_idx * gmm_pitch + i)
      vx == FSub(FInt(pixel[1]), R(1))
      vy == FSub(FInt(pixel[2]), R(2))
      vz == FSub(FInt(pixel[3]), R(3))
      xxa == FMul(FMul(vx, vx), R(4))
      yyd == FMul(FMul(vy, vy), R(7))
      zzf == FMul(FMul(vz, vz), R(9))
      yxb == FMul(FMul(vx, vy), R(5))
      zxc == FMul(FMul(vz, vx), R(6))
      zye == FMul(FMul(vz, vy), R(8))
  IN FMul(Fin(<<-1>>, <<2>>),
          FAdd(FAdd(FAdd(xxa, yyd), zzf),
               FMul(FInt(2), FAdd(FAdd(yxb, zxc), zye))))

\* line 404: the class of GMMTerm(pixel, &gmm[gmm_idx * gmm_pitch])
GMMTerm(pixel, gmm_idx) ==
  MulClass(ClassOf(GmmWord(gmm_idx * gmm_pitch + 10)),
           ExpClass(GMMTermArg(pixel, gmm_idx)))

\* lines 423-426: the clusters j + i for j = 0, MIXTURES, ... below gmmN
MixtureClusters(i, gmmN) ==
  [n \in 1..((gmmN + MIXTURES - 1) \div MIXTURES) |-> (n - 1) * MIXTURES + i]

\* lines 421-428: the class of weights[i]
MixtureWeight(pixel, i, gmmN) ==
  LET cl == MixtureClusters(i, gmmN)
      RECURSIVE Tot(_)
      Tot(n) == IF n = 0 THEN "zero" ELSE AddClass(Tot(n - 1), GMMTerm(pixel, cl[n]))
  IN Tot(Len(cl))

\* lines 417-430: weight_total
WeightTotal(ws) ==
  LET RECURSIVE Tot(_)
      Tot(n) == IF n = 0 THEN "zero" ELSE AddClass(Tot(n - 1), ws[n])
  IN Tot(Len(ws))

RECURSIVE Flatten(_, _)
Flatten(f, n) == IF n = 0 THEN <<>> ELSE Flatten(f, n - 1) \o f[n]

DataTerm ==
  /\ pc.op = "GMMDataTerm" /\ Ok
  /\ LET gmmN == gmms
         plane == width * height
         den == Flatten([i \in 1..MIXTURES |-> MixtureClusters(i - 1, gmmN)], MIXTURES)
         read == {den[n] : n \in 1..Len(den)}
     IN /\ \E table \in {{<<col, <<MixtureWeight(col, 0, gmmN), MixtureWeight(col, 1, gmmN)>>>> :
                            col \in {image[p] : p \in Pixels}}} :
             output' =
               [w \in DOMAIN output |->
                  LET i == w \div plane
                      ws == (CHOOSE r \in table : r[1] = image[w % plane])[2]
                  IN IF i < MIXTURES
                     THEN OutCell(DivClass(ws[i + 1], WeightTotal(ws)),
                                  MixtureClusters(i, gmmN), den)
                     ELSE output[w]]
        /\ oob' = oob
             \cup {<<"GMMDataTermKernel", "gmm">> : c \in {x \in read : x >= gmms}}
             \cup {<<"GMMDataTermKernel", "output">> :
                     i \in {x \in 0..(MIXTURES - 1) : (x + 1) * plane > output_words}}
        /\ badReads' = badReads
             \cup {<<"GMMDataTermKernel", "commonTerm">> :
                     c \in {x \in read : x < gmms /\ x \div 2 >= gmmN \div 2}}
  /\ log' = Append(log, <<"GMMDataTermKernel", "GMMDataTerm", gmms, 0>>)
  /\ pc' = At("GMM_Cuda", "return", pc.k, 0)
  /\ UNCHANGED <<inputVars, alpha, scratch_mem, gmm, final_gmm, cudaError, epoch,
                 races, runVars, blockVars>>

(***************************************************************************)
(* GMM_Cuda, lines 61-65: the buffers are freed and the output returned.   *)
(***************************************************************************)
Return ==
  /\ pc.op = "return"
  /\ pc' = At("GMM_Cuda", "done", pc.k, 0)
  /\ log' = Append(log, <<"return output", "GMM_Cuda", 0, 0>>)
  /\ UNCHANGED <<inputVars, alpha, scratch_mem, gmm, output, final_gmm, cudaError,
                 epoch, races, badReads, oob, runVars, blockVars>>

Init ==
  /\ \E g \in Geometries : width = g[1] /\ height = g[2]
  /\ mixture_count \in 1..MaxMixtures
  /\ gaussians_per_mixture \in 1..MaxGmms
  /\ mixture_count * gaussians_per_mixture <= MaxGmms
  /\ \E ik \in ImageKinds : image = [p \in Pixels |-> Colour(ik, PX(p), PY(p))]
  /\ \E lk \in LabelKinds : labels = [p \in Pixels |-> Label(lk, mixture_count, PX(p), PY(p))]
  /\ alpha = <<>> /\ scratch_mem = <<>> /\ gmm = <<>> /\ output = <<>>
  /\ final_gmm = <<>>
  /\ pc = At("GMM_Cuda", "alloc", 0, 0)
  /\ cudaError = "cudaSuccess"
  /\ epoch = 0 /\ races = 0 /\ log = <<>> /\ badReads = {} /\ oob = {}
  /\ run = 1 /\ first = <<>>
  /\ warp = <<>> /\ s_final = <<>> /\ acc = <<>> /\ block_gmm = <<>>

Next ==
  \/ Alloc
  \/ EnterInitialize
  \/ Reduction
  \/ Finalize
  \/ FindSplit
  \/ DoSplit
  \/ EnterUpdate
  \/ CommonTerm
  \/ DataTerm
  \/ Return

Spec == Init /\ [][Next]_vars
(***************************************************************************)
(* The tail of GMMFinalizeKernel (lines 312-353) on its own: one block      *)
(* computes and stores its record from a final_gmm drawn from the matrices *)
(* of the bounds below: variances 0..MaxVar, each less epsilon, on the     *)
(* diagonal and covariances -MaxCov..MaxCov off it.                        *)
(***************************************************************************)
MaxVar == 2
MaxCov == 1

InitTables ==
  /\ width = 1 /\ height = 1 /\ mixture_count = 1 /\ gaussians_per_mixture = 1
  /\ image = [p \in {0} |-> <<0, 0, 0>>]
  /\ labels = [p \in {0} |-> 0]
  /\ alpha = labels
  /\ scratch_mem = <<>> /\ output = <<>>
  /\ \E c00 \in 0..MaxVar, c11 \in 0..MaxVar, c22 \in 0..MaxVar,
        c01 \in (-MaxCov)..MaxCov, c02 \in (-MaxCov)..MaxCov, c12 \in (-MaxCov)..MaxCov :
       final_gmm = << <<One, Zero, Zero, Zero,
                        FSub(FInt(c00), epsilon), FInt(c01), FInt(c02),
                        FSub(FInt(c11), epsilon), FInt(c12),
                        FSub(FInt(c22), epsilon)>> >>
  /\ gmm = [w \in 1..gmm_pitch |-> Undef]
  /\ \E fn \in {"GMMInitialize", "GMMUpdate"} : pc = At(fn, "tables", 1, 0)
  /\ cudaError = "cudaSuccess"
  /\ epoch = 0 /\ races = 0 /\ log = <<>> /\ badReads = {} /\ oob = {}
  /\ run = 1 /\ first = <<>>
  /\ warp = <<>> /\ s_final = <<>> /\ acc = <<>> /\ block_gmm = <<>>

\* lines 312-353 for block 0; invertSigma is true in the launch of GMMUpdate
StoreRecord ==
  /\ pc.op = "tables"
  /\ gmm' = FinalRecord(final_gmm[1], pc.fn = "GMMUpdate")
  /\ pc' = At(pc.fn, "stored", 1, 0)
  /\ UNCHANGED <<inputVars, alpha, scratch_mem, output, final_gmm, cudaError, epoch,
                 races, log, badReads, oob, runVars, blockVars>>

NextTables == StoreRecord
SpecTables == InitTables /\ [][NextTables]_vars

(***************************************************************************)
(* The call on a device that can fail.  GMM_Cuda ignores the status every  *)
(* cudaMalloc, cudaMemcpyAsync and cudaFree returns (gmm_cuda.cuh lines    *)
(* 49-63) and no launch in gmm_cuda.cu is followed by ErrorCheck, so the   *)
(* host goes on through the same statements; the launches that follow a    *)
(* failure do not run.                                                     *)
(***************************************************************************)
Kernels == {"reduce", "finalize", "findsplit", "dosplit", "commonterm", "GMMDataTerm"}

\* the host statement after the launch at pc
AfterLaunch ==
  CASE pc.op = "reduce" -> AfterReduction
    [] pc.op = "finalize" ->
         (IF pc.fn = "GMMInitialize" THEN At(pc.fn, "findsplit", pc.k, 0)
          ELSE At(pc.fn, "commonterm", pc.k, 0))
    [] pc.op = "findsplit" -> At(pc.fn, "dosplit", pc.k, 0)
    [] pc.op = "dosplit" -> LoopOrLeave(pc.k + 2)
    [] pc.op = "commonterm" -> At("GMM_Cuda", "GMMDataTerm", pc.k, 0)
    [] OTHER -> At("GMM_Cuda", "return", pc.k, 0)

\* gmm_cuda.cuh lines 49-55: a cudaMalloc fails; its status is dropped
AllocFails ==
  /\ pc.op = "alloc" /\ Ok
  /\ cudaError' = "cudaErrorMemoryAllocation"
  /\ output' = [w \in 0..(output_words - 1) |-> NoCell]
  /\ pc' = At("GMM_Cuda", "GMMInitialize", 0, 0)
  /\ UNCHANGED <<inputVars, alpha, scratch_mem, gmm, final_gmm, epoch, races, log,
                 badReads, oob, runVars, blockVars>>

\* a launch fails; nothing reads the device's status after it
LaunchFails ==
  /\ pc.op \in Kernels /\ Ok
  /\ cudaError' = "cudaErrorLaunchFailure"
  /\ pc' = AfterLaunch
  /\ UNCHANGED <<inputVars, alpha, scratch_mem, gmm, output, final_gmm, epoch, races,
                 log, badReads, oob, runVars, blockVars>>

\* a launch after a failure: the kernel does not run, the host goes on
LaunchAfterFailure ==
  /\ pc.op \in Kernels /\ ~Ok
  /\ pc' = AfterLaunch
  /\ UNCHANGED <<inputVars, alpha, scratch_mem, gmm, output, final_gmm, cudaError,
                 epoch, races, log, badReads, oob, runVars, blockVars>>

NextFault ==
  \/ Next
  \/ AllocFails
  \/ LaunchFails
  \/ LaunchAfterFailure

SpecFault == Init /\ [][NextFault]_vars

(***************************************************************************)
(* The same call made twice on the same input.                             *)
(***************************************************************************)
Rerun ==
  /\ pc.op = "done" /\ run = 1
  /\ first' = <<alpha, gmm, output>>
  /\ run' = 2
  /\ pc' = At("GMM_Cuda", "alloc", 0, 0)
  /\ races' = 0 /\ badReads' = {} /\ oob' = {}
  /\ UNCHANGED <<inputVars, alpha, scratch_mem, gmm, output, final_gmm, cudaError,
                 epoch, log, blockVars>>

NextTwice ==
  \/ Next
  \/ Rerun

SpecTwice == Init /\ [][NextTwice]_vars

(***************************************************************************)
(* One block of GMMReductionKernel, warp by warp.  pc.k is the block's     *)
(* tile and pc.i is gmm_idx.  The only barrier of the reduction loop is    *)
(* the __syncthreads of line 215; between two barriers the warps take      *)
(* their steps in any order.                                               *)
(***************************************************************************)
WarpAt(i, at) == [i |-> i, at |-> at]

\* the position of a warp after iteration i of the loop of line 178
NextIteration(i) == IF i < 9 THEN WarpAt(i + 1, "sum") ELSE WarpAt(10, "exit")

InitBlock ==
  /\ \E g \in Geometries : width = g[1] /\ height = g[2]
  /\ mixture_count \in 1..MIXTURES
  /\ gaussians_per_mixture = 1
  /\ \E ik \in ImageKinds : image = [p \in Pixels |-> Colour(ik, PX(p), PY(p))]
  /\ \E lk \in LabelKinds : labels = [p \in Pixels |-> Label(lk, mixture_count, PX(p), PY(p))]
  /\ alpha = labels
  /\ epoch = 0
  /\ scratch_mem = [w \in 0..(scratch_words - 1) |->
                      IF w < blocks
                      THEN [t |-> "mask",
                            m |-> {labels[p] : p \in {q \in Pixels : TileOf(q) = w /\ labels[q] # -1}},
                            f |-> Undef, i |-> 0, ep |-> 0]
                      ELSE UndefCell]
  /\ gmm = <<>> /\ output = <<>> /\ final_gmm = <<>>
  /\ \E tile \in Tiles, gmm_idx \in 0..(gmms - 1) :
       pc = At("GMMReductionKernel", "block", tile, gmm_idx)
  /\ cudaError = "cudaSuccess"
  /\ races = 0 /\ log = <<>> /\ badReads = {} /\ oob = {}
  /\ run = 1 /\ first = <<>>
  /\ warp = <<>> /\ s_final = <<>> /\ acc = <<>> /\ block_gmm = <<>>

\* lines 112-135: the mask test of a pass that does not build the mask; a
\* block that goes on has every warp at the top of the loop of line 178
BlockStart ==
  /\ pc.op = "block"
  /\ IF pc.i # 0 /\ pc.i \notin scratch_mem[pc.k].m
     THEN /\ block_gmm' = [i \in 1..10 |-> 0]
          /\ pc' = At(pc.fn, "blockdone", pc.k, pc.i)
          /\ UNCHANGED <<warp, s_final, scratch_mem>>
     ELSE /\ block_gmm' = [i \in 1..10 |-> -1]
          /\ warp' = [w \in 0..(warp_N - 1) |-> WarpAt(0, "sum")]
          /\ s_final' = [w \in 0..(warp_N - 1) |-> -1]
          /\ scratch_mem' = IF pc.i = 0
                            THEN [scratch_mem EXCEPT ![pc.k] = MaskCell(TileFlags(pc.k) \cap (0..31))]
                            ELSE scratch_mem
          /\ pc' = At(pc.fn, "running", pc.k, pc.i)
  /\ UNCHANGED <<inputVars, alpha, gmm, output, final_gmm, cudaError, epoch, races,
                 log, badReads, oob, runVars, acc>>

\* lines 180-213: warp w reduces statistic i and stores its total
WarpSum(w) ==
  /\ pc.op = "running" /\ warp[w].at = "sum"
  /\ s_final' = [s_final EXCEPT ![w] = WarpTotal(pc.i, pc.k, w, warp[w].i)]
  /\ warp' = [warp EXCEPT ![w] = WarpAt(warp[w].i, "barrier")]
  /\ UNCHANGED <<inputVars, alpha, scratch_mem, gmm, output, final_gmm, pc, cudaError,
                 epoch, races, log, badReads, oob, runVars, acc, block_gmm>>

\* line 215: every warp has arrived.  Warp 0 goes on to the final reduction
\* with its own total in thread_gmm; the other warps go round the loop.
Barrier ==
  /\ pc.op = "running"
  /\ \A w \in 0..(warp_N - 1) : warp[w].at = "barrier"
  /\ acc' = [j |-> 1, thread_gmm |-> s_final[0]]
  /\ warp' = [w \in 0..(warp_N - 1) |->
                IF w = 0 THEN WarpAt(warp[0].i, "final") ELSE NextIteration(warp[w].i)]
  /\ UNCHANGED <<inputVars, alpha, scratch_mem, gmm, output, final_gmm, pc, cudaError,
                 epoch, races, log, badReads, oob, runVars, s_final, block_gmm>>

\* lines 220-223: one iteration of thread 0's loop over s_final
FinalAdd ==
  /\ pc.op = "running" /\ warp[0].at = "final" /\ acc.j < warp_N
  /\ acc' = [j |-> acc.j + 1, thread_gmm |-> acc.thread_gmm + s_final[acc.j]]
  /\ UNCHANGED <<inputVars, alpha, scratch_mem, gmm, output, final_gmm, pc, cudaError,
                 epoch, races, log, badReads, oob, runVars, warp, s_final, block_gmm>>

\* line 225: thread 0 stores the block's total of statistic i
WriteBlock ==
  /\ pc.op = "running" /\ warp[0].at = "final" /\ acc.j = warp_N
  /\ block_gmm' = [block_gmm EXCEPT ![warp[0].i + 1] = acc.thread_gmm]
  /\ warp' = [warp EXCEPT ![0] = NextIteration(warp[0].i)]
  /\ pc' = IF warp[0].i = 9 THEN At(pc.fn, "blockdone", pc.k, pc.i) ELSE pc
  /\ UNCHANGED <<inputVars, alpha, scratch_mem, gmm, output, final_gmm, cudaError,
                 epoch, races, log, badReads, oob, runVars, s_final, acc>>

NextBlock ==
  \/ BlockStart
  \/ \E w \in 0..(warp_N - 1) : WarpSum(w)
  \/ Barrier
  \/ FinalAdd
  \/ WriteBlock

SpecBlock == InitBlock /\ [][NextBlock]_vars

(***************************************************************************)
(* compute_eigenvector on its own: the matrix M is drawn into the          *)
(* covariance slots of cluster 0 of gmm, the eigenvalue into pc.k, and the *)
(* result is stored in the eigenvector words of gmmSplit[0].               *)
(***************************************************************************)
MaxEntry == 1

InitEigen ==
  /\ width = 1 /\ height = 1 /\ mixture_count = 1 /\ gaussians_per_mixture = 1
  /\ image = [p \in {0} |-> <<0, 0, 0>>]
  /\ labels = [p \in {0} |-> 0]
  /\ alpha = labels
  /\ epoch = 0
  /\ scratch_mem = [w \in 0..(SPLIT_WORDS - 1) |-> UndefCell]
  /\ \E m00 \in (-MaxEntry)..MaxEntry, m01 \in (-MaxEntry)..MaxEntry,
        m02 \in (-MaxEntry)..MaxEntry, m11 \in (-MaxEntry)..MaxEntry,
        m12 \in (-MaxEntry)..MaxEntry, m22 \in (-MaxEntry)..MaxEntry :
       gmm = <<One, Zero, Zero, Zero, FInt(m00), FInt(m01), FInt(m02), FInt(m11),
               FInt(m12), FInt(m22), Zero>>
  /\ \E L \in (-MaxEntry)..MaxEntry : pc = At("compute_eigenvector", "call", L, 0)
  /\ output = <<>> /\ final_gmm = <<>>
  /\ cudaError = "cudaSuccess"
  /\ races = 0 /\ log = <<>> /\ badReads = {} /\ oob = {}
  /\ run = 1 /\ first = <<>>
  /\ warp = <<>> /\ s_final = <<>> /\ acc = <<>> /\ block_gmm = <<>>

\* lines 522-530 and 591
ComputeEigenvector ==
  /\ pc.op = "call"
  /\ \E e \in {compute_eigenvector(Sigma(0), FInt(pc.k))} :
       scratch_mem' = [w \in DOMAIN scratch_mem |->
                         IF w >= 2 THEN FloatCell(e[w - 1]) ELSE scratch_mem[w]]
  /\ pc' = At(pc.fn, "returned", pc.k, 0)
  /\ UNCHANGED <<inputVars, alpha, gmm, output, final_gmm, cudaError, epoch, races,
                 log, badReads, oob, runVars, blockVars>>

NextEigen == ComputeEigenvector
SpecEigen == InitEigen /\ [][NextEigen]_vars

(***************************************************************************)
(* Statements about the pipeline.                                          *)
(***************************************************************************)
K == mixture_count * gaussians_per_mixture
Finished == pc.op = "done"

\* plane m of the output at pixel p
OutputAt(m, p) == output[m * width * height + p]

\* some cluster of the table has a nonzero density at pixel p
Responds(p) == \E c \in 0..(gmms - 1) : GMMTerm(image[p], c) \in {"pos", "pinf"}

\* record slot i of cluster c
RecordSlot(c, i) == gmm[c * gmm_pitch + i + 1]

\* C1: after DataTerm, for every pixel with a nonzero mixture response, every
\* output probability is non-negative and the probabilities of the mixtures
\* sum to 1: the numerators of the planes are together the terms of the
\* common denominator.  Stated for the two-mixture layout the kernel is
\* compiled for and for the runs in which no read of s_final came late.
C1_ProbabilitiesNormalised ==
  (Finished /\ mixture_count = MIXTURES /\ races = 0) =>
    \A p \in Pixels :
      Responds(p) =>
        /\ \A m \in 0..(mixture_count - 1) : OutputAt(m, p).k \in {"pos", "zero"}
        /\ Flatten([m \in 1..mixture_count |-> OutputAt(m - 1, p).num], mixture_count)
             = OutputAt(0, p).den

\* C2: DataTerm writes exactly the planes 0..mixture_count-1, plane m from
\* exactly gaussians_per_mixture clusters, normalised over all K clusters, and
\* reads no cluster record outside the table of K records.
C2_PlanesAndClusters ==
  Finished =>
    /\ \A w \in DOMAIN output : output[w].num # <<>>
    /\ <<"GMMDataTermKernel", "output">> \notin oob
    /\ <<"GMMDataTermKernel", "gmm">> \notin oob
    /\ \A w \in DOMAIN output :
         /\ Len(output[w].num) = gaussians_per_mixture
         /\ Len(output[w].den) = K
         /\ \A n \in 1..Len(output[w].den) : output[w].den[n] < K

\* the stage of the call a log entry belongs to
StageOf(e) ==
  CASE e[1] = "GMMInitialize" \/ e[2] = "GMMInitialize" -> 1
    [] e[1] = "GMMUpdate" \/ e[2] = "GMMUpdate" -> 2
    [] e[2] = "GMMDataTerm" -> 3
    [] OTHER -> 4

Entered(name) == {n \in 1..Len(log) : log[n][1] = name}

\* C3: Initialize, Update and DataTerm run once each, in that order, and every
\* word a stage reads was written by a stage that completed earlier in the
\* call, after the last relabeling.  Stated for the two-mixture layout.
C3_OrderAndFreshReads ==
  mixture_count = MIXTURES =>
    /\ \A a \in 1..Len(log), b \in 1..Len(log) : a < b => StageOf(log[a]) <= StageOf(log[b])
    /\ \A name \in {"GMMInitialize", "GMMUpdate", "GMMDataTermKernel"} :
         /\ Cardinality(Entered(name)) <= 1
         /\ Finished => Cardinality(Entered(name)) = 1
    /\ badReads = {}
    /\ oob = {}

\* C4: for K >= 2 the split loop ends with k = K, and a pass over n clusters
\* finds every label in [-1, n-1].
C4_LoopAndLabels ==
  K >= 2 =>
    /\ pc.op = "GMMUpdate" => pc.k = K
    /\ pc.op \in {"reduce", "finalize", "findsplit", "commonterm"} =>
         \A p \in Pixels : alpha[p] >= -1 /\ alpha[p] <= pc.k - 1
    /\ pc.op \in {"GMMDataTerm", "return", "done"} =>
         \A p \in Pixels : alpha[p] >= -1 /\ alpha[p] <= K - 1

\* the clusters finalize has just written
Finalized == IF pc.op \in {"findsplit", "commonterm"} THEN 0..(pc.k - 1) ELSE {}

IsZero(x) == IsFin(x) /\ FSign(x) = 0

\* C5: a cluster without pixels finalizes to a record of zeros, gets a finite
\* common term, and brings no NaN or Inf into the output (in the runs in
\* which no read of s_final came late).
C5_EmptyClusterIsZero ==
  races = 0 =>
  /\ \A c \in Finalized :
       IsZero(RecordSlot(c, 0)) => \A i \in 0..10 : IsZero(RecordSlot(c, i))
  /\ pc.op \in {"GMMDataTerm", "return", "done"} =>
       \A c \in 0..(gmms - 1) :
         IsZero(RecordSlot(c, 0)) => IsFin(RecordSlot(c, 10))
  /\ Finished =>
       \A w \in DOMAIN output :
         (\E n \in 1..Len(output[w].den) :
            output[w].den[n] < gmms /\ IsZero(RecordSlot(output[w].den[n], 0)))
           => output[w].k \notin {"nan", "pinf", "ninf"}

\* the sums finalize has read for cluster c, from the partial records
SumsOf(c) == FinalSums(c, {})

\* C9: for a cluster with count > 0 finalize leaves mean_i = sum_i / count and
\* covariance (i,j) = sum_ij / count - mean_i * mean_j, plus epsilon on the
\* diagonal, so that every diagonal entry is at least epsilon.
C9_RegularisedCovariance ==
  \A c \in Finalized :
    LET sum == SumsOf(c)
        f == final_gmm[c + 1]
        count == sum[1]
        mean(i) == FDiv(sum[i + 1], count)
        cov(s, i, j) == FSub(FDiv(sum[s + 1], count), FMul(mean(i), mean(j)))
    IN (races = 0 /\ FGt(count, Zero)) =>
         /\ \A i \in 1..3 : FEq(f[i + 1], mean(i))
         /\ FEq(f[5], FAdd(cov(4, 1, 1), epsilon))
         /\ FEq(f[6], cov(5, 1, 2))
         /\ FEq(f[7], cov(6, 1, 3))
         /\ FEq(f[8], FAdd(cov(7, 2, 2), epsilon))
         /\ FEq(f[9], cov(8, 2, 3))
         /\ FEq(f[10], FAdd(cov(9, 3, 3), epsilon))
         /\ FGe(f[5], epsilon) /\ FGe(f[8], epsilon) /\ FGe(f[10], epsilon)

\* det(C) by cofactor expansion, for C = <<c00, c01, c02, c11, c12, c22>>
Det3(C) ==
  FSub(FSub(FSub(FAdd(FMul(FMul(C[1], C[4]), C[6]),
                      FMul(FInt(2), FMul(FMul(C[2], C[3]), C[5]))),
                 FMul(C[1], FMul(C[5], C[5]))),
            FMul(C[4], FMul(C[3], C[3]))),
       FMul(C[6], FMul(C[2], C[2])))

\* entry (i, j) of the symmetric matrix kept as <<m00, m01, m02, m11, m12, m22>>
SymEntry(M, i, j) ==
  LET lo == IF i <= j THEN i ELSE j
      hi == IF i <= j THEN j ELSE i
  IN M[(lo - 1) * 3 - ((lo - 1) * lo) \div 2 + hi]

\* entry (i, j) of the product of two symmetric matrices
ProductEntry(A, B, i, j) ==
  FAdd(FAdd(FMul(SymEntry(A, i, 1), SymEntry(B, 1, j)),
            FMul(SymEntry(A, i, 2), SymEntry(B, 2, j))),
       FMul(SymEntry(A, i, 3), SymEntry(B, 3, j)))

Stored(i) == gmm[i + 1]

\* C10: from the covariance C the moment step left in final_gmm[4..9], the
\* table-driven code stores det(C) in slot 10; when the inverse is requested
\* it stores in slots 4..9 a matrix whose product with C is the identity if
\* det(C) > 0 and six zeros if det(C) <= 0; otherwise it stores C itself.
C10_DeterminantAndInverse ==
  pc.op = "stored" =>
    LET f == final_gmm[1]
        C == <<f[5], f[6], f[7], f[8], f[9], f[10]>>
        S == <<Stored(4), Stored(5), Stored(6), Stored(7), Stored(8), Stored(9)>>
        det == Det3(C)
    IN /\ FEq(Stored(10), det)
       /\ \A i \in 0..3 : Stored(i) = f[i + 1]
       /\ pc.fn # "GMMUpdate" => S = C
       /\ (pc.fn = "GMMUpdate" /\ FGt(det, Zero)) =>
            \A i \in 1..3, j \in 1..3 :
              FEq(ProductEntry(C, S, i, j), IF i = j THEN One ELSE Zero)
       /\ (pc.fn = "GMMUpdate" /\ ~FGt(det, Zero)) =>
            \A t \in 1..6 : IsZero(S[t])

\* the inverse of a covariance with a positive determinant and nonzero
\* off-diagonal entries has been stored
C10_Witness ==
  /\ pc.op = "stored" /\ pc.fn = "GMMUpdate"
  /\ FGt(Stored(10), Zero)
  /\ ~IsZero(final_gmm[1][6]) /\ ~IsZero(final_gmm[1][7]) /\ ~IsZero(final_gmm[1][9])
  /\ ~IsZero(Stored(5))

\* C6: a call in which the device reported a failure does not end by
\* returning the output buffer to the caller.
C6_FailureEndsCall ==
  (Finished /\ ~Ok) =>
    \A n \in 1..Len(log) : log[n][1] # "return output"

\* C7: the second of two calls on the same input ends with the label map,
\* the cluster records and the output of the first.
C7_SameResultTwice ==
  (run = 2 /\ Finished) => <<alpha, gmm, output>> = first

\* the sum of statistic i over the pixels of the tile labelled gmm_idx
TileTotal(gmm_idx, tile, i) ==
  LET mine == {p \in Pixels : TileOf(p) = tile /\ alpha[p] = gmm_idx}
  IN SumInt(mine, [p \in mine |-> get_component(image[p], i)])

\* C8: when a block of the reduction has finished, its partial record holds
\* for each of the 10 statistics exactly the sum over the tile's pixels
\* labelled gmm_idx, whatever the order of the warps' steps was.
C8_ExactPartialSums ==
  pc.op = "blockdone" =>
    \A i \in 0..9 : block_gmm[i + 1] = TileTotal(pc.i, pc.k, i)

\* the eigenvalues of the live candidates of a split round with gmmK
\* candidates per group: element <<y + 1, x + 1>> is that of cluster 2x + y
LiveEigenvalues(gmmK) ==
  Tabulate(2, LAMBDA y : Tabulate(gmmK, LAMBDA x : LaneEigenvalue(gmmK, x - 1, y - 1)))

\* the descriptor of group y as GMMFindSplit left it
Descriptor(y) ==
  <<scratch_mem[y * SPLIT_WORDS], scratch_mem[y * SPLIT_WORDS + 1],
    scratch_mem[y * SPLIT_WORDS + 2], scratch_mem[y * SPLIT_WORDS + 3],
    scratch_mem[y * SPLIT_WORDS + 4]>>

\* C11: after find-split in a round with k live clusters, the descriptor of
\* each group names a live candidate (index < k/2) whose largest eigenvalue
\* is the maximum over the group's live candidates, the lowest-index one
\* among equals, and holds that candidate's eigenvector and the projection of
\* its mean onto it: no thread without a live cluster wrote it.
C11_SplitNamesLargestLive ==
  pc.op = "dosplit" =>
    LET gmmK == pc.k \div 2
    IN \A y \in 0..1 :
         \E ev \in {LiveEigenvalues(gmmK)} :
           /\ scratch_mem[y * SPLIT_WORDS].t = "int"
           /\ SplitIdx(y) >= 0 /\ SplitIdx(y) < gmmK
           /\ \A u \in 0..(gmmK - 1) :
                /\ FGe(ev[y + 1][SplitIdx(y) + 1], ev[y + 1][u + 1])
                /\ FEq(ev[y + 1][SplitIdx(y) + 1], ev[y + 1][u + 1]) => SplitIdx(y) <= u
           /\ Descriptor(y) = SplitOf(gmmK, ev, SplitIdx(y), y)

\* the words of the descriptor of the group of label a, as they are in memory
ChosenIdx(a) == scratch_mem[(a % 2) * SPLIT_WORDS].i
ChosenThreshold(a) == scratch_mem[(a % 2) * SPLIT_WORDS + 1].f
ChosenVector(a) ==
  <<scratch_mem[(a % 2) * SPLIT_WORDS + 2].f, scratch_mem[(a % 2) * SPLIT_WORDS + 3].f,
    scratch_mem[(a % 2) * SPLIT_WORDS + 4].f>>

\* whether the projection of the colour of p onto the stored eigenvector is
\* strictly greater than the stored threshold: "unknown" when a word of the
\* descriptor was never initialised, "false" when one of them is NaN
Exceeds(p) ==
  LET e == ChosenVector(alpha[p])
      t == ChosenThreshold(alpha[p])
      c == image[p]
  IN IF t.k = "undef" \/ \E i \in 1..3 : e[i].k = "undef" THEN "unknown"
     ELSE IF t.k # "scaled" \/ \E i \in 1..3 : e[i].k # "scaled" \/ e[i].s # t.s THEN "false"
     ELSE IF FGt(FAdd(FAdd(FMul(FInt(c[1]), Fin(e[1].n, e[1].d)),
                           FMul(FInt(c[2]), Fin(e[2].n, e[2].d))),
                      FMul(FInt(c[3]), Fin(e[3].n, e[3].d))),
                 Fin(t.n, t.d))
     THEN "true" ELSE "false"

\* C12: a split with k live clusters gives the label k + s, s the parity of
\* the old label, to the pixels that are in the cluster the descriptor of
\* their group names and whose projection is strictly greater than the
\* threshold, and leaves every other label as it is; a label of -1 stays -1,
\* the image never changes, and no step of Initialize changes the parity of
\* a label.
C12_SplitFrame ==
  [][/\ image' = image
     /\ pc.op # "alloc" =>
          \A p \in Pixels : alpha[p] = -1 => alpha'[p] = -1
     /\ (pc.fn = "GMMInitialize" /\ pc.op # "dosplit") => alpha' = alpha
     /\ pc.op = "dosplit" =>
          \A p \in Pixels :
            LET a == alpha[p]
                moved == (pc.k \div 2) * 2 + (a % 2)
            IN IF a = -1 \/ a \div 2 # ChosenIdx(a) \/ Exceeds(p) = "false"
               THEN alpha'[p] = a
               ELSE /\ alpha'[p] \in {a, moved}
                    /\ Exceeds(p) = "true" => alpha'[p] = moved
                    /\ alpha'[p] % 2 = a % 2]_vars

\* a split has moved a pixel of the chosen cluster to the new index and left
\* another pixel of that cluster where it was
C12_Witness ==
  /\ pc.op = "GMMUpdate" /\ epoch = 1
  /\ scratch_mem[0].t = "int" /\ ChosenIdx(0) = 0
  /\ \E p \in Pixels, q \in Pixels :
       /\ labels[p] = 0 /\ alpha[p] = 2 /\ Exceeds(p) = "true"
       /\ labels[q] = 0 /\ alpha[q] = 0 /\ Exceeds(q) = "false"

\* component i of the stored eigenvector before its division by the length
Unnormalised(i) == Fin(scratch_mem[i + 1].f.n, scratch_mem[i + 1].f.d)

\* u . v for two vectors of floats
Dot(u, v) == FAdd(FAdd(FMul(u[1], v[1]), FMul(u[2], v[2])), FMul(u[3], v[3]))

\* C13: the vector the eigenvector routine normalises is the cross product
\* of row 0 (m00 - L, m01, m02) and row 1 (m01, m11 - L, m12) of M - L * I,
\* and so is orthogonal to both rows.
C13_CrossProductOfRows ==
  (pc.op = "returned" /\ \A i \in 1..3 : scratch_mem[i + 1].f.k = "scaled") =>
    LET M == Sigma(0)
        L == FInt(pc.k)
        row0 == <<FSub(M[1], L), M[2], M[3]>>
        row1 == <<M[2], FSub(M[4], L), M[5]>>
        v == <<Unnormalised(1), Unnormalised(2), Unnormalised(3)>>
        c == cross_prod(row0, row1)
    IN /\ \A i \in 1..3 : FEq(v[i], c[i])
       /\ FEq(Dot(v, row0), Zero)
       /\ FEq(Dot(v, row1), Zero)

\* the count of cluster i before the common terms are stored
CountOf(i) == gmm[i * gmm_pitch + 1]

\* the sum of the counts of the clusters below n with the parity of i
RECURSIVE GroupCount(_, _)
GroupCount(i, n) ==
  IF n = 0 THEN Zero
  ELSE IF (n - 1) % 2 = i % 2 THEN FAdd(GroupCount(i, n - 1), CountOf(n - 1))
  ELSE GroupCount(i, n - 1)

\* the clusters other than i that DataTerm adds into the mixture of i
Siblings(i, n) == {j \in 0..(n - 1) : j # i /\ j % 2 = i % 2}

====
